---- MODULE Spec2Model ----
(***************************************************************************)
(* Controllers of the library catalog (authors, books, genres, book        *)
(* instances) over a document store.  A request is a process: it starts    *)
(* with the handler's validation and first store reads, and a handler that *)
(* reads before it writes resumes in a second step for the write, so that  *)
(* the store operations of two requests may interleave at the await.       *)
(***************************************************************************)
EXTENDS Integers, Sequences, FiniteSets, TLC

\* Identifiers a store ever hands out, per collection (1..MaxId).
MaxId == 2

Ids == 1..MaxId

\* Documents the store ever holds, over all collections.
MaxDocs == 3

\* The request slots: r1 alone is the one-request-at-a-time server, r1 and r2
\* together are two requests in flight.
Reqs == {"r1", "r2"}

VARIABLES authors, books, genres, bookinstances, nextId, req

vars == <<authors, books, genres, bookinstances, nextId, req>>

store == <<authors, books, genres, bookinstances, nextId>>

----------------------------------------------------------------------------
(* Text: a string is a sequence of characters. *)

\* validator's trim(): whitespace off both ends.
RECURSIVE LTrim(_)
LTrim(s) == IF s # <<>> /\ Head(s) = " " THEN LTrim(Tail(s)) ELSE s

RECURSIVE RTrim(_)
RTrim(s) == IF s # <<>> /\ s[Len(s)] = " " THEN RTrim(SubSeq(s, 1, Len(s) - 1)) ELSE s

Trim(s) == RTrim(LTrim(s))

\* validator's escape(): HTML characters become entities.
EscapeChar(c) ==
  IF c = "<" THEN <<"&", "l", "t", ";">>
  ELSE IF c = ">" THEN <<"&", "g", "t", ";">>
  ELSE IF c = "&" THEN <<"&", "a", "m", "p", ";">>
  ELSE <<c>>

RECURSIVE Escape(_)
Escape(s) == IF s = <<>> THEN <<>> ELSE EscapeChar(Head(s)) \o Escape(Tail(s))

\* .trim().isLength({ min: 1 }).escape(): what the chain leaves in req.body.
Sanitize(s) == Escape(Trim(s))

\* isLength({ min: 1 }) runs on the trimmed value.
IsLengthMin1(s) == Len(Trim(s)) >= 1

AlnumChars == {"a", "b", "c", "0", "1"}

\* isAlphanumeric() runs after escape(); the empty string is not alphanumeric.
IsAlphanumeric(s) == s # <<>> /\ \A i \in 1..Len(s) : s[i] \in AlnumChars

\* A date field: "" is an empty input, skipped by optional({ checkFalsy: true }).
IsISO8601(d) == d = "2020-01-01"

FieldError(param, msg) == [param |-> param, msg |-> msg]

\* One required text field: its error, if any.
Required(raw, param, msg) ==
  IF IsLengthMin1(raw) THEN <<>> ELSE <<FieldError(param, msg)>>

\* One optional date field: its error, if any.
OptionalDate(d, param, msg) ==
  IF d = "" \/ IsISO8601(d) THEN <<>> ELSE <<FieldError(param, msg)>>

----------------------------------------------------------------------------
(* Responses and requests. *)

NoUrl == [path |-> "", id |-> 0]

NoData == [none |-> TRUE]

\* The url virtual of a document, and the list pages.
Url(path, id) == [path |-> path, id |-> id]

Render(view, data) ==
  [type |-> "render", view |-> view, url |-> NoUrl, status |-> 0, data |-> data]

Redirect(url) ==
  [type |-> "redirect", view |-> "", url |-> url, status |-> 0, data |-> NoData]

\* next(err): status 404 for the handler's own not-found error, 500 otherwise.
NextErr(status) ==
  [type |-> "error", view |-> "", url |-> NoUrl, status |-> status, data |-> NoData]

Snapshot ==
  [authors |-> authors, books |-> books, genres |-> genres,
   bookinstances |-> bookinstances]

Idle ==
  [kind |-> "none", pc |-> "idle", params |-> [id |-> 0], body |-> NoData,
   local |-> NoData, resp |-> <<>>, pre |-> [none |-> TRUE]]

\* A request may arrive in a slot that holds no request.
CanStart(r) == req[r].pc = "idle"

\* The request in slot r, new, with what it has done up to its first await:
\* params.id is the route's id, body the form as submitted, local what the
\* handler keeps for its next step, pre the store as the request found it.
Begin(r, kind, id, body, pc, local, resp) ==
  req' = [req EXCEPT ![r] =
            [kind |-> kind, pc |-> pc, params |-> [id |-> id], body |-> body,
             local |-> local, resp |-> resp, pre |-> Snapshot]]

\* The request in slot r resumes after its await and responds.
Finish(r, resp) ==
  req' = [req EXCEPT ![r].pc = "done", ![r].resp = req[r].resp \o resp]

At(r, kind, pc) == req[r].kind = kind /\ req[r].pc = pc

\* The response is out and the request is over: its slot is free again.
Close(r) ==
  /\ req[r].pc = "done"
  /\ req' = [req EXCEPT ![r] = Idle]
  /\ UNCHANGED <<authors, books, genres, bookinstances, nextId>>

----------------------------------------------------------------------------
(* The store: each collection maps the ids of its documents to them. *)

\* Model.findById(id): the document, or none.
FindById(coll, id) == IF id \in DOMAIN coll THEN {id} ELSE {}

\* Model.findByIdAndRemove(id): without the document, if it was there.
Remove(coll, id) == [i \in DOMAIN coll \ {id} |-> coll[i]]

\* doc.save() of a new document under the id its constructor gave it.
Insert(coll, id, doc) == [i \in DOMAIN coll \cup {id} |-> IF i = id THEN doc ELSE coll[i]]

\* The update as an upsert: an id that resolves to no document gets one.
UpdateUpsert(coll, id, doc) == [i \in DOMAIN coll \cup {id} |-> IF i = id THEN doc ELSE coll[i]]

\* Model.findByIdAndUpdate(id, doc, {}): no upsert.
Update(coll, id, doc) == [i \in DOMAIN coll |-> IF i = id THEN doc ELSE coll[i]]

\* Book.find({ author: id }).
BooksOfAuthor(id) == {b \in DOMAIN books : books[b].author = id}

\* Book.find({ genre: id }): the genre array holds the id.
BooksOfGenre(id) == {b \in DOMAIN books : \E i \in 1..Len(books[b].genre) : books[b].genre[i] = id}

\* BookInstance.find({ book: id }).
InstancesOfBook(id) == {c \in DOMAIN bookinstances : bookinstances[c].book = id}

\* Genre.findOne({ name: name }).
GenresNamed(name) == {g \in DOMAIN genres : genres[g].name = name}

Empty == [i \in {} |-> 0]

\* new Model(...) gives the document a fresh id; the ids run out at the bounds.
Allocated == (nextId.authors - 1) + (nextId.books - 1) + (nextId.genres - 1) + (nextId.bookinstances - 1)

CanAllocate(c) == nextId[c] <= MaxId /\ Allocated < MaxDocs

Init ==
  /\ authors = Empty
  /\ books = Empty
  /\ genres = Empty
  /\ bookinstances = Empty
  /\ nextId = [authors |-> 1, books |-> 1, genres |-> 1, bookinstances |-> 1]
  /\ req = [r \in Reqs |-> Idle]

----------------------------------------------------------------------------
(* Genre controller. *)

\* The name field as a form may submit it.
RawNames == {<<>>, <<"a">>, <<" ", "a">>, <<"b">>}

\* res.render() on a response that res.redirect() has already ended: the call is
\* made; whether the framework then reports an error is its own business.
RenderAfterEnd(view, data) == {<<Render(view, data)>>, <<Render(view, data), NextErr(500)>>}

genre_list(r) ==
  /\ CanStart(r)
  /\ Begin(r, "genre_list", 0, NoData, "done", NoData,
           <<Render("genre_list", [genres |-> DOMAIN genres])>>)
  /\ UNCHANGED store

genre_detail(r, id) ==
  /\ CanStart(r)
  /\ LET genre == FindById(genres, id)
         genre_books == BooksOfGenre(id)
     IN Begin(r, "genre_detail", id, NoData, "done", NoData,
              IF genre = {} THEN <<NextErr(404)>>
              ELSE <<Render("genre_detail", [genre |-> genre, genre_books |-> genre_books])>>)
  /\ UNCHANGED store

genre_create_get(r) ==
  /\ CanStart(r)
  /\ Begin(r, "genre_create_get", 0, NoData, "done", NoData,
           <<Render("genre_form", NoData)>>)
  /\ UNCHANGED store

\* body("name", "Genre name required").trim().isLength({ min: 1 }).escape()
GenreErrors(name) == Required(name, "name", "Genre name required")


\* A genre create POST that saves without looking for a genre of the name.
genre_create_post_unchecked(r, name) ==
  /\ CanStart(r)
  /\ LET errors == GenreErrors(name)
         genre == [name |-> Sanitize(name)]
         body == [name |-> name]
     IN IF errors # <<>>
        THEN /\ Begin(r, "genre_create_post", 0, body, "done", NoData,
                      <<Render("genre_form", [genre |-> genre, errors |-> errors])>>)
             /\ UNCHANGED nextId
        ELSE /\ CanAllocate("genres")
             /\ Begin(r, "genre_create_post", 0, body, "save",
                      [genre |-> genre, id |-> nextId.genres], <<>>)
             /\ nextId' = [nextId EXCEPT !.genres = @ + 1]
  /\ UNCHANGED <<authors, books, genres, bookinstances>>

genre_create_post(r, name) ==
  /\ CanStart(r)
  /\ LET errors == GenreErrors(name)
         genre == [name |-> Sanitize(name)]
         body == [name |-> name]
     IN IF errors # <<>>
        THEN /\ Begin(r, "genre_create_post", 0, body, "done", NoData,
                      <<Render("genre_form", [genre |-> genre, errors |-> errors])>>)
             /\ UNCHANGED nextId
        ELSE \/ /\ \E genreMatch \in GenresNamed(genre.name) :
                     Begin(r, "genre_create_post", 0, body, "done", NoData,
                           <<Redirect(Url("/catalog/genre/", genreMatch))>>)
                /\ UNCHANGED nextId
             \/ /\ GenresNamed(genre.name) = {}
                /\ CanAllocate("genres")
                /\ Begin(r, "genre_create_post", 0, body, "save",
                         [genre |-> genre, id |-> nextId.genres], <<>>)
                /\ nextId' = [nextId EXCEPT !.genres = @ + 1]
  /\ UNCHANGED <<authors, books, genres, bookinstances>>


\* A save that redirects without having written the genre.
genre_create_post_save_lost(r) ==
  /\ At(r, "genre_create_post", "save")
  /\ Finish(r, <<Redirect(Url("/catalog/genre/", req[r].local.id))>>)
  /\ UNCHANGED <<authors, books, genres, bookinstances, nextId>>

\* await genre.save(); res.redirect(genre.url);
genre_create_post_save(r) ==
  /\ At(r, "genre_create_post", "save")
  /\ genres' = Insert(genres, req[r].local.id, req[r].local.genre)
  /\ Finish(r, <<Redirect(Url("/catalog/genre/", req[r].local.id))>>)
  /\ UNCHANGED <<authors, books, bookinstances, nextId>>

genre_delete_get(r, id) ==
  /\ CanStart(r)
  /\ LET genre == FindById(genres, id)
         genre_books == BooksOfGenre(id)
         data == [genre |-> genre, genre_books |-> genre_books]
     IN IF genre = {}
        THEN \E rest \in RenderAfterEnd("genre_delete", data) :
               Begin(r, "genre_delete_get", id, NoData, "done", NoData,
                     <<Redirect(Url("/catalog/genres", 0))>> \o rest)
        ELSE Begin(r, "genre_delete_get", id, NoData, "done", NoData,
                   <<Render("genre_delete", data)>>)
  /\ UNCHANGED store

genre_delete_post(r, id, genreid) ==
  /\ CanStart(r)
  /\ LET genre == FindById(genres, id)
         genre_books == BooksOfGenre(id)
         body == [genreid |-> genreid]
     IN IF genre_books # {}
        THEN Begin(r, "genre_delete_post", id, body, "done", NoData,
                   <<Render("genre_delete", [genre |-> genre, genre_books |-> genre_books])>>)
        ELSE Begin(r, "genre_delete_post", id, body, "remove", NoData, <<>>)
  /\ UNCHANGED store

\* await Genre.findByIdAndRemove(req.body.genreid); res.redirect("/catalog/genres");
genre_delete_post_remove(r) ==
  /\ At(r, "genre_delete_post", "remove")
  /\ genres' = Remove(genres, req[r].body.genreid)
  /\ Finish(r, <<Redirect(Url("/catalog/genres", 0))>>)
  /\ UNCHANGED <<authors, books, bookinstances, nextId>>

genre_update_get(r, id) ==
  /\ CanStart(r)
  /\ Begin(r, "genre_update_get", id, NoData, "done", NoData,
           <<Render("genre_form", NoData)>>)
  /\ UNCHANGED store

\* The update without its lookup of the name: every valid name is written.
genre_update_post_unchecked(r, id, name) ==
  /\ CanStart(r)
  /\ LET errors == GenreErrors(name)
         genre == [name |-> Sanitize(name)]
         body == [name |-> name]
     IN IF errors # <<>>
        THEN Begin(r, "genre_update_post", id, body, "done", NoData,
                   <<Render("genre_form", [genre |-> genre, errors |-> errors])>>)
        ELSE Begin(r, "genre_update_post", id, body, "update", [genre |-> genre], <<>>)
  /\ UNCHANGED store

genre_update_post(r, id, name) ==
  /\ CanStart(r)
  /\ LET errors == GenreErrors(name)
         genre == [name |-> Sanitize(name)]
         body == [name |-> name]
     IN IF errors # <<>>
        THEN Begin(r, "genre_update_post", id, body, "done", NoData,
                   <<Render("genre_form", [genre |-> genre, errors |-> errors])>>)
        ELSE \/ \E genreMatch \in GenresNamed(genre.name) :
                  Begin(r, "genre_update_post", id, body, "done", NoData,
                        <<Redirect(Url("/catalog/genre/", genreMatch))>>)
             \/ /\ GenresNamed(genre.name) = {}
                /\ Begin(r, "genre_update_post", id, body, "update", [genre |-> genre], <<>>)
  /\ UNCHANGED store

\* newGenre is the document found, or null: null.url throws into the catch.
genre_update_post_update(r) ==
  /\ At(r, "genre_update_post", "update")
  /\ LET newGenre == FindById(genres, req[r].params.id)
     IN /\ genres' = Update(genres, req[r].params.id, req[r].local.genre)
        /\ Finish(r, IF newGenre = {} THEN <<NextErr(500)>>
                     ELSE <<Redirect(Url("/catalog/genre/", req[r].params.id))>>)
  /\ UNCHANGED <<authors, books, bookinstances, nextId>>

GenreController(r) ==
  \/ genre_list(r)
  \/ \E id \in Ids : genre_detail(r, id)
  \/ genre_create_get(r)
  \/ \E name \in RawNames : genre_create_post(r, name)
  \/ genre_create_post_save(r)
  \/ \E id \in Ids : genre_delete_get(r, id)
  \/ \E id \in Ids, genreid \in Ids : genre_delete_post(r, id, genreid)
  \/ genre_delete_post_remove(r)
  \/ \E id \in Ids : genre_update_get(r, id)
  \/ \E id \in Ids, name \in RawNames : genre_update_post(r, id, name)
  \/ genre_update_post_update(r)

----------------------------------------------------------------------------
(* Author controller. *)

AuthorInput(first_name, family_name, date_of_birth, date_of_death) ==
  [first_name |-> first_name, family_name |-> family_name,
   date_of_birth |-> date_of_birth, date_of_death |-> date_of_death]

\* Submitted author forms: two that pass every rule, and one per failing rule.
AuthorInputs ==
  {AuthorInput(<<"a">>, <<"b">>, "", ""),
   AuthorInput(<<" ", "a">>, <<"b">>, "2020-01-01", ""),
   AuthorInput(<<>>, <<"b">>, "", ""),
   AuthorInput(<<"<">>, <<"b">>, "", ""),
   AuthorInput(<<"a">>, <<" ">>, "", "2020-01-01"),
   AuthorInput(<<"a">>, <<"b">>, "bad", "")}

\* .toDate(): a date, or null for what is no date; an empty input is left alone.
ToDate(d) == IF d = "" \/ IsISO8601(d) THEN d ELSE "null"

\* .trim().isLength({ min: 1 }).escape().withMessage(m1).isAlphanumeric().withMessage(m2)
NameErrors(raw, param, m1, m2) ==
  Required(raw, param, m1)
  \o (IF IsAlphanumeric(Sanitize(raw)) THEN <<>> ELSE <<FieldError(param, m2)>>)

AuthorErrors(in) ==
  NameErrors(in.first_name, "first_name", "First name must be specified.",
             "First name has non-alphanumeric characters.")
  \o NameErrors(in.family_name, "family_name", "Family name must be specified.",
                "Family name has non-alphanumeric characters.")
  \o OptionalDate(in.date_of_birth, "date_of_birth", "Invalid date of birth")
  \o OptionalDate(in.date_of_death, "date_of_death", "Invalid date of death")

\* req.body as the validation chains leave it.
AuthorBody(in) ==
  [first_name |-> Sanitize(in.first_name), family_name |-> Sanitize(in.family_name),
   date_of_birth |-> ToDate(in.date_of_birth), date_of_death |-> ToDate(in.date_of_death)]

author_list(r) ==
  /\ CanStart(r)
  /\ Begin(r, "author_list", 0, NoData, "done", NoData,
           <<Render("author_list", [authors |-> DOMAIN authors])>>)
  /\ UNCHANGED store

author_detail(r, id) ==
  /\ CanStart(r)
  /\ LET author == FindById(authors, id)
         authors_books == BooksOfAuthor(id)
     IN Begin(r, "author_detail", id, NoData, "done", NoData,
              IF author = {} THEN <<NextErr(404)>>
              ELSE <<Render("author_detail", [author |-> author, authors_books |-> authors_books])>>)
  /\ UNCHANGED store

author_create_get(r) ==
  /\ CanStart(r)
  /\ Begin(r, "author_create_get", 0, NoData, "done", NoData,
           <<Render("author_form", NoData)>>)
  /\ UNCHANGED store


\* An author create POST that redirects to the list page after the save.
author_create_post_to_list(r, in) ==
  /\ CanStart(r)
  /\ LET errors == AuthorErrors(in)
         body == AuthorBody(in)
     IN IF errors # <<>>
        THEN /\ Begin(r, "author_create_post", 0, in, "done", NoData,
                      <<Render("author_form", [author |-> body, errors |-> errors])>>)
             /\ UNCHANGED <<authors, nextId>>
        ELSE /\ CanAllocate("authors")
             /\ authors' = Insert(authors, nextId.authors, body)
             /\ nextId' = [nextId EXCEPT !.authors = @ + 1]
             /\ Begin(r, "author_create_post", 0, in, "done", NoData,
                      <<Redirect(Url("/catalog/authors", 0))>>)
  /\ UNCHANGED <<books, genres, bookinstances>>

author_create_post(r, in) ==
  /\ CanStart(r)
  /\ LET errors == AuthorErrors(in)
         body == AuthorBody(in)
     IN IF errors # <<>>
        THEN /\ Begin(r, "author_create_post", 0, in, "done", NoData,
                      <<Render("author_form", [author |-> body, errors |-> errors])>>)
             /\ UNCHANGED <<authors, nextId>>
        ELSE /\ CanAllocate("authors")
             /\ authors' = Insert(authors, nextId.authors, body)
             /\ nextId' = [nextId EXCEPT !.authors = @ + 1]
             /\ Begin(r, "author_create_post", 0, in, "done", NoData,
                      <<Redirect(Url("/catalog/author/", nextId.authors))>>)
  /\ UNCHANGED <<books, genres, bookinstances>>

author_delete_get(r, id) ==
  /\ CanStart(r)
  /\ LET author == FindById(authors, id)
         author_books == BooksOfAuthor(id)
         data == [author |-> author, author_books |-> author_books]
     IN IF author = {}
        THEN \E rest \in RenderAfterEnd("author_delete", data) :
               Begin(r, "author_delete_get", id, NoData, "done", NoData,
                     <<Redirect(Url("/catalog/authors", 0))>> \o rest)
        ELSE Begin(r, "author_delete_get", id, NoData, "done", NoData,
                   <<Render("author_delete", data)>>)
  /\ UNCHANGED store

author_delete_post(r, id, authorid) ==
  /\ CanStart(r)
  /\ LET author == FindById(authors, authorid)
         author_books == BooksOfAuthor(authorid)
         body == [authorid |-> authorid]
     IN IF author_books # {}
        THEN Begin(r, "author_delete_post", id, body, "done", NoData,
                   <<Render("author_delete", [author |-> author, author_books |-> author_books])>>)
        ELSE Begin(r, "author_delete_post", id, body, "remove", NoData, <<>>)
  /\ UNCHANGED store

\* await Author.findByIdAndRemove(req.body.authorid); res.redirect("/catalog/authors");
author_delete_post_remove(r) ==
  /\ At(r, "author_delete_post", "remove")
  /\ authors' = Remove(authors, req[r].body.authorid)
  /\ Finish(r, <<Redirect(Url("/catalog/authors", 0))>>)
  /\ UNCHANGED <<books, genres, bookinstances, nextId>>

author_update_get(r, id) ==
  /\ CanStart(r)
  /\ LET author == FindById(authors, id)
     IN Begin(r, "author_update_get", id, NoData, "done", NoData,
              IF author = {} THEN <<NextErr(404)>>
              ELSE <<Render("author_form", [author |-> author])>>)
  /\ UNCHANGED store

\* newAuthor is the document found, or null: null.url throws into the catch.
author_update_post(r, id, in) ==
  /\ CanStart(r)
  /\ LET errors == AuthorErrors(in)
         body == AuthorBody(in)
         newAuthor == FindById(authors, id)
     IN IF errors # <<>>
        THEN /\ Begin(r, "author_update_post", id, in, "done", NoData,
                      <<Render("author_form", [author |-> body, errors |-> errors])>>)
             /\ UNCHANGED authors
        ELSE /\ authors' = Update(authors, id, body)
             /\ Begin(r, "author_update_post", id, in, "done", NoData,
                      IF newAuthor = {} THEN <<NextErr(500)>>
                      ELSE <<Redirect(Url("/catalog/author/", id))>>)
  /\ UNCHANGED <<books, genres, bookinstances, nextId>>

AuthorController(r) ==
  \/ author_list(r)
  \/ \E id \in Ids : author_detail(r, id)
  \/ author_create_get(r)
  \/ \E in \in AuthorInputs : author_create_post(r, in)
  \/ \E id \in Ids : author_delete_get(r, id)
  \/ \E id \in Ids, authorid \in Ids : author_delete_post(r, id, authorid)
  \/ author_delete_post_remove(r)
  \/ \E id \in Ids : author_update_get(r, id)
  \/ \E id \in Ids, in \in AuthorInputs : author_update_post(r, id, in)

----------------------------------------------------------------------------
(* Book controller. *)

\* req.body.genre as the form submits it: absent, one value, or an array; val
\* lists the values submitted.  A reference field (author, a genre) is an id,
\* 0 for the empty string.
BookInput(title, author, summary, isbn, kind, genre) ==
  [title |-> title, author |-> author, summary |-> summary, isbn |-> isbn,
   genre |-> [kind |-> kind, val |-> genre]]

\* Submitted book forms: three that pass every rule, and one per failing rule.
BookInputs ==
  {BookInput(<<"a">>, 1, <<"a">>, <<"1">>, "undefined", <<>>),
   BookInput(<<" ", "a">>, 1, <<"a">>, <<"1">>, "scalar", <<1>>),
   BookInput(<<"a">>, 2, <<"<">>, <<"1">>, "array", <<1, 2>>),
   BookInput(<<" ">>, 1, <<"a">>, <<"1">>, "scalar", <<1>>),
   BookInput(<<"a">>, 0, <<"a">>, <<"1">>, "array", <<1, 2>>),
   BookInput(<<"a">>, 1, <<>>, <<"1">>, "undefined", <<>>),
   BookInput(<<"a">>, 1, <<"a">>, <<>>, "scalar", <<2>>)}

\* The first middleware: req.body.genre becomes an array.
GenreToArray(genre) ==
  IF genre.kind = "array" THEN genre.val
  ELSE IF genre.kind = "undefined" THEN <<>>
  ELSE <<Head(genre.val)>>

BookErrors(in) ==
  Required(in.title, "title", "Title must not be empty.")
  \o (IF in.author # 0 THEN <<>> ELSE <<FieldError("author", "Author must not be empty.")>>)
  \o Required(in.summary, "summary", "Summary must not be empty.")
  \o Required(in.isbn, "isbn", "ISBN must not be empty")

\* new Book({ ... }) from req.body as the chains leave it.
BookOf(in) ==
  [title |-> Sanitize(in.title), author |-> in.author, summary |-> Sanitize(in.summary),
   isbn |-> Sanitize(in.isbn), genre |-> GenreToArray(in.genre)]

\* The genres of the form that the book's genre array holds.
Checked(book) == {g \in DOMAIN genres : \E i \in 1..Len(book.genre) : book.genre[i] = g}

BookForm(book, errors) ==
  Render("book_form", [authors |-> DOMAIN authors, genres |-> DOMAIN genres,
                       checked |-> Checked(book), book |-> book, errors |-> errors])

index(r) ==
  /\ CanStart(r)
  /\ Begin(r, "index", 0, NoData, "done", NoData,
           <<Render("index",
                    [book_count |-> Cardinality(DOMAIN books),
                     book_instance_count |-> Cardinality(DOMAIN bookinstances),
                     book_instance_available_count |->
                       Cardinality({c \in DOMAIN bookinstances : bookinstances[c].status = "Available"}),
                     author_count |-> Cardinality(DOMAIN authors),
                     genre_count |-> Cardinality(DOMAIN genres)])>>)
  /\ UNCHANGED store

book_list(r) ==
  /\ CanStart(r)
  /\ Begin(r, "book_list", 0, NoData, "done", NoData,
           <<Render("book_list", [books |-> DOMAIN books])>>)
  /\ UNCHANGED store

book_detail(r, id) ==
  /\ CanStart(r)
  /\ LET book == FindById(books, id)
         book_instance == InstancesOfBook(id)
     IN Begin(r, "book_detail", id, NoData, "done", NoData,
              IF book = {} THEN <<NextErr(404)>>
              ELSE <<Render("book_detail", [book |-> book, book_instances |-> book_instance])>>)
  /\ UNCHANGED store

book_create_get(r) ==
  /\ CanStart(r)
  /\ Begin(r, "book_create_get", 0, NoData, "done", NoData,
           <<Render("book_form", [authors |-> DOMAIN authors, genres |-> DOMAIN genres])>>)
  /\ UNCHANGED store

book_create_post(r, in) ==
  /\ CanStart(r)
  /\ LET errors == BookErrors(in)
         book == BookOf(in)
     IN IF errors # <<>>
        THEN /\ Begin(r, "book_create_post", 0, in, "done", NoData, <<BookForm(book, errors)>>)
             /\ UNCHANGED <<books, nextId>>
        ELSE /\ CanAllocate("books")
             /\ books' = Insert(books, nextId.books, book)
             /\ nextId' = [nextId EXCEPT !.books = @ + 1]
             /\ Begin(r, "book_create_post", 0, in, "done", NoData,
                      <<Redirect(Url("/catalog/book/", nextId.books))>>)
  /\ UNCHANGED <<authors, genres, bookinstances>>

book_delete_get(r, id) ==
  /\ CanStart(r)
  /\ LET book == FindById(books, id)
         book_instances == InstancesOfBook(id)
         data == [book |-> book, book_instances |-> book_instances]
     IN IF book = {}
        THEN \E rest \in RenderAfterEnd("book_delete", data) :
               Begin(r, "book_delete_get", id, NoData, "done", NoData,
                     <<Redirect(Url("/catalog/books", 0))>> \o rest)
        ELSE Begin(r, "book_delete_get", id, NoData, "done", NoData,
                   <<Render("book_delete", data)>>)
  /\ UNCHANGED store


\* A book delete POST that goes on to the removal whatever copies there are.
book_delete_post_unguarded(r, id, bookid) ==
  /\ CanStart(r)
  /\ Begin(r, "book_delete_post", id, [bookid |-> bookid], "remove", NoData, <<>>)
  /\ UNCHANGED store

book_delete_post(r, id, bookid) ==
  /\ CanStart(r)
  /\ LET book == FindById(books, id)
         book_instances == InstancesOfBook(id)
         body == [bookid |-> bookid]
     IN IF book_instances # {}
        THEN Begin(r, "book_delete_post", id, body, "done", NoData,
                   <<Render("book_delete", [book |-> book, book_instances |-> book_instances])>>)
        ELSE Begin(r, "book_delete_post", id, body, "remove", NoData, <<>>)
  /\ UNCHANGED store

\* await Book.findByIdAndRemove(req.body.bookid); res.redirect("/catalog/books");
book_delete_post_remove(r) ==
  /\ At(r, "book_delete_post", "remove")
  /\ books' = Remove(books, req[r].body.bookid)
  /\ Finish(r, <<Redirect(Url("/catalog/books", 0))>>)
  /\ UNCHANGED <<authors, genres, bookinstances, nextId>>

book_update_get(r, id) ==
  /\ CanStart(r)
  /\ LET book == FindById(books, id)
     IN Begin(r, "book_update_get", id, NoData, "done", NoData,
              IF book = {} THEN <<NextErr(404)>>
              ELSE <<Render("book_form", [authors |-> DOMAIN authors, genres |-> DOMAIN genres,
                                          checked |-> Checked(books[id]), book |-> book])>>)
  /\ UNCHANGED store

\* newBook is the document found, or null: null.url throws into the catch.
book_update_post(r, id, in) ==
  /\ CanStart(r)
  /\ LET errors == BookErrors(in)
         book == BookOf(in)
         newBook == FindById(books, id)
     IN IF errors # <<>>
        THEN /\ Begin(r, "book_update_post", id, in, "done", NoData, <<BookForm(book, errors)>>)
             /\ UNCHANGED books
        ELSE /\ books' = Update(books, id, book)
             /\ Begin(r, "book_update_post", id, in, "done", NoData,
                      IF newBook = {} THEN <<NextErr(500)>>
                      ELSE <<Redirect(Url("/catalog/book/", id))>>)
  /\ UNCHANGED <<authors, genres, bookinstances, nextId>>

BookController(r) ==
  \/ index(r)
  \/ book_list(r)
  \/ \E id \in Ids : book_detail(r, id)
  \/ book_create_get(r)
  \/ \E in \in BookInputs : book_create_post(r, in)
  \/ \E id \in Ids : book_delete_get(r, id)
  \/ \E id \in Ids, bookid \in Ids : book_delete_post(r, id, bookid)
  \/ book_delete_post_remove(r)
  \/ \E id \in Ids : book_update_get(r, id)
  \/ \E id \in Ids, in \in BookInputs : book_update_post(r, id, in)

----------------------------------------------------------------------------
(* BookInstance controller. *)

InstanceInput(book, imprint, status, due_back) ==
  [book |-> book, imprint |-> imprint, status |-> status, due_back |-> due_back]

\* Submitted copy forms: those that pass every declared rule, and one per
\* failing rule.
InstanceInputs ==
  {InstanceInput(1, <<"a">>, "Available", ""),
   InstanceInput(1, <<" ", "a">>, "Loaned", "2020-01-01"),
   InstanceInput(2, <<"a">>, "Loaned", ""),
   InstanceInput(1, <<"a">>, "Maintenance", ""),
   InstanceInput(0, <<"a">>, "Available", ""),
   InstanceInput(1, <<>>, "Loaned", "2020-01-01"),
   InstanceInput(1, <<"a">>, "Available", "bad")}

InstanceErrors(in) ==
  (IF in.book # 0 THEN <<>> ELSE <<FieldError("book", "Book must be specified")>>)
  \o Required(in.imprint, "imprint", "Imprint must be specified")
  \o OptionalDate(in.due_back, "due_back", "Invalid date")


\* The update without its cross-field rule: the declared rules alone.
DueBackErrorNone(in) == <<>>

\* if (req.body.status != "Available" && !req.body.due_back) errors.errors.push(dateErrow)
DueBackError(in) ==
  IF in.status # "Available" /\ ToDate(in.due_back) \in {"", "null"}
  THEN <<FieldError("Due_back", "Invalid date")>> ELSE <<>>

\* new BookInstance({ ... }) from req.body as the chains leave it; a date that
\* is empty or null is no date.
InstanceOf(in) ==
  [book |-> in.book, imprint |-> Sanitize(in.imprint), status |-> in.status,
   due_back |-> IF IsISO8601(in.due_back) THEN in.due_back ELSE ""]

bookinstance_list(r) ==
  /\ CanStart(r)
  /\ Begin(r, "bookinstance_list", 0, NoData, "done", NoData,
           <<Render("bookinstance_list", [bookInsctancies |-> DOMAIN bookinstances])>>)
  /\ UNCHANGED store

\* "Copy: " + bookinstance.book.title throws when the populated book is null.
bookinstance_detail(r, id) ==
  /\ CanStart(r)
  /\ LET bookinstance == FindById(bookinstances, id)
     IN Begin(r, "bookinstance_detail", id, NoData, "done", NoData,
              IF bookinstance = {} THEN <<NextErr(404)>>
              ELSE IF bookinstances[id].book \notin DOMAIN books THEN <<NextErr(500)>>
              ELSE <<Render("bookinstance_detail", [bookinstance |-> bookinstance])>>)
  /\ UNCHANGED store

bookinstance_create_get(r) ==
  /\ CanStart(r)
  /\ Begin(r, "bookinstance_create_get", 0, NoData, "done", NoData,
           <<Render("bookinstance_form", [books |-> DOMAIN books])>>)
  /\ UNCHANGED store

\* selected_book: bookinstance.book._id throws when the candidate has no book.
bookinstance_create_post(r, in) ==
  /\ CanStart(r)
  /\ LET errors == InstanceErrors(in)
         bookinstance == InstanceOf(in)
     IN IF errors # <<>>
        THEN /\ Begin(r, "bookinstance_create_post", 0, in, "done", NoData,
                      IF bookinstance.book = 0 THEN <<NextErr(500)>>
                      ELSE <<Render("bookinstance_form",
                                    [books |-> DOMAIN books, selected_book |-> bookinstance.book,
                                     errors |-> errors, bookinstance |-> bookinstance])>>)
             /\ UNCHANGED <<bookinstances, nextId>>
        ELSE /\ CanAllocate("bookinstances")
             /\ bookinstances' = Insert(bookinstances, nextId.bookinstances, bookinstance)
             /\ nextId' = [nextId EXCEPT !.bookinstances = @ + 1]
             /\ Begin(r, "bookinstance_create_post", 0, in, "done", NoData,
                      <<Redirect(Url("/catalog/bookinstance/", nextId.bookinstances))>>)
  /\ UNCHANGED <<authors, books, genres>>

bookinstance_delete_get(r, id) ==
  /\ CanStart(r)
  /\ LET bookinstance == FindById(bookinstances, id)
         data == [bookinstance |-> bookinstance]
     IN IF bookinstance = {}
        THEN \E rest \in RenderAfterEnd("bookinstance_delete", data) :
               Begin(r, "bookinstance_delete_get", id, NoData, "done", NoData,
                     <<Redirect(Url("/catalog/bookinstances", 0))>> \o rest)
        ELSE Begin(r, "bookinstance_delete_get", id, NoData, "done", NoData,
                   <<Render("bookinstance_delete", data)>>)
  /\ UNCHANGED store

bookinstance_delete_post(r, id, bookinstanceid) ==
  /\ CanStart(r)
  /\ bookinstances' = Remove(bookinstances, bookinstanceid)
  /\ Begin(r, "bookinstance_delete_post", id, [bookinstanceid |-> bookinstanceid], "done",
           NoData, <<Redirect(Url("/catalog/bookinstances", 0))>>)
  /\ UNCHANGED <<authors, books, genres, nextId>>

bookinstance_update_get(r, id) ==
  /\ CanStart(r)
  /\ LET bookinstance == FindById(bookinstances, id)
     IN Begin(r, "bookinstance_update_get", id, NoData, "done", NoData,
              IF bookinstance = {} THEN <<NextErr(404)>>
              ELSE <<Render("bookinstance_form",
                            [books |-> DOMAIN books, bookinstance |-> bookinstance])>>)
  /\ UNCHANGED store

\* newBookinstance is the document found, or null: null.url throws into the catch.
bookinstance_update_post(r, id, in) ==
  /\ CanStart(r)
  /\ LET errors == InstanceErrors(in) \o DueBackError(in)
         bookinstance == InstanceOf(in)
         newBookinstance == FindById(bookinstances, id)
     IN IF errors # <<>>
        THEN /\ Begin(r, "bookinstance_update_post", id, in, "done", NoData,
                      <<Render("bookinstance_form",
                               [books |-> DOMAIN books, errors |-> errors,
                                bookinstance |-> bookinstance])>>)
             /\ UNCHANGED bookinstances
        ELSE /\ bookinstances' = Update(bookinstances, id, bookinstance)
             /\ Begin(r, "bookinstance_update_post", id, in, "done", NoData,
                      IF newBookinstance = {} THEN <<NextErr(500)>>
                      ELSE <<Redirect(Url("/catalog/bookinstance/", id))>>)
  /\ UNCHANGED <<authors, books, genres, nextId>>

BookInstanceController(r) ==
  \/ bookinstance_list(r)
  \/ \E id \in Ids : bookinstance_detail(r, id)
  \/ bookinstance_create_get(r)
  \/ \E in \in InstanceInputs : bookinstance_create_post(r, in)
  \/ \E id \in Ids : bookinstance_delete_get(r, id)
  \/ \E id \in Ids, bookinstanceid \in Ids : bookinstance_delete_post(r, id, bookinstanceid)
  \/ \E id \in Ids : bookinstance_update_get(r, id)
  \/ \E id \in Ids, in \in InstanceInputs : bookinstance_update_post(r, id, in)

----------------------------------------------------------------------------
(* The server. *)

Handle(r) ==
  \/ AuthorController(r)
  \/ BookController(r)
  \/ GenreController(r)
  \/ BookInstanceController(r)
  \/ Close(r)

\* One request at a time: a request runs to its response before the next arrives.
Next == Handle("r1")

Spec == Init /\ [][Next]_vars

\* Two requests on genres in flight: their store operations interleave at the
\* awaits between a handler's lookup and its write.
HandleGenreConc(r) ==
  \/ \E name \in RawNames : genre_create_post(r, name)
  \/ genre_create_post_save(r)
  \/ \E id \in Ids, name \in RawNames : genre_update_post(r, id, name)
  \/ genre_update_post_update(r)
  \/ \E id \in Ids, genreid \in Ids : genre_delete_post(r, id, genreid)
  \/ genre_delete_post_remove(r)
  \/ Close(r)

NextGenreConc == \E r \in Reqs : HandleGenreConc(r)

SpecGenreConc == Init /\ [][NextGenreConc]_vars

\* Two requests in flight over authors and the books that name them: each await
\* of the author delete POST is a point where the other request may run.
HandleAuthorConc(r) ==
  \/ \E in \in AuthorInputs : author_create_post(r, in)
  \/ \E id \in Ids, authorid \in Ids : author_delete_post(r, id, authorid)
  \/ author_delete_post_remove(r)
  \/ \E in \in BookInputs : book_create_post(r, in)
  \/ \E id \in Ids, in \in BookInputs : book_update_post(r, id, in)
  \/ Close(r)

NextAuthorConc == \E r \in Reqs : HandleAuthorConc(r)

SpecAuthorConc == Init /\ [][NextAuthorConc]_vars

----------------------------------------------------------------------------
(* Properties of the handlers. *)

Count(coll) == Cardinality(DOMAIN coll)

Done(r, kind) == req[r].kind = kind /\ req[r].pc = "done"

\* The request answered with exactly one render of the view.
Rendered(r, view) ==
  Len(req[r].resp) = 1 /\ req[r].resp[1].type = "render" /\ req[r].resp[1].view = view

\* The request answered with exactly one redirect to the location.
Redirected(r, url) == req[r].resp = <<Redirect(url)>>

\* The request answered with exactly one error of the status.
Failed(r, status) == req[r].resp = <<NextErr(status)>>

\* The authors and genres that a book of the collection refers to.
AuthorsReferenced(bks) == {bks[b].author : b \in DOMAIN bks}

GenresReferenced(bks) ==
  UNION {{bks[b].genre[i] : i \in 1..Len(bks[b].genre)} : b \in DOMAIN bks}

\* C1: a delete POST for an author or a genre never removes a document that a
\* book referred to when the request ran, whatever ids the path and the body
\* carry: no referenced document is gone afterwards, and a request that names
\* a referenced document keeps the count and renders the confirmation view.
C1_ReferencedNeverDeleted ==
  \A r \in Reqs :
    /\ Done(r, "author_delete_post") =>
         LET p == req[r].pre
             ref == AuthorsReferenced(p.books) \cap DOMAIN p.authors
         IN /\ ref \subseteq DOMAIN authors
            /\ req[r].body.authorid \in ref =>
                 Count(authors) >= Count(p.authors) /\ Rendered(r, "author_delete")
    /\ Done(r, "genre_delete_post") =>
         LET p == req[r].pre
             ref == GenresReferenced(p.books) \cap DOMAIN p.genres
         IN /\ ref \subseteq DOMAIN genres
            /\ req[r].body.genreid \in ref =>
                 Count(genres) >= Count(p.genres) /\ Rendered(r, "genre_delete")

\* C3: a genre create POST whose sanitized name is the name of a genre in the
\* store adds no genre and redirects to the location of a genre of that name
\* that was already there.
C3_DuplicateNameNotCreated ==
  \A r \in Reqs :
    (Done(r, "genre_create_post")
       /\ \E g \in DOMAIN req[r].pre.genres :
            req[r].pre.genres[g].name = Sanitize(req[r].body.name)) =>
      /\ Count(genres) = Count(req[r].pre.genres)
      /\ \E g \in DOMAIN req[r].pre.genres :
           /\ req[r].pre.genres[g].name = Sanitize(req[r].body.name)
           /\ Redirected(r, Url("/catalog/genre/", g))

C3_Witness ==
  /\ Done("r1", "genre_create_post")
  /\ req["r1"].body.name = <<" ", "a">>
  /\ \E g \in DOMAIN req["r1"].pre.genres : req["r1"].pre.genres[g].name = <<"a">>
  /\ req["r1"].resp # <<>>

\* C4: a delete POST for an author or a genre that exists and has no book
\* removes exactly that document, so the count drops by one, and redirects to
\* the list page.  The document is the one the handler looks the books up for.
C4_UnreferencedDeleted ==
  \A r \in Reqs :
    /\ (Done(r, "author_delete_post")
          /\ req[r].body.authorid \in DOMAIN req[r].pre.authors
          /\ req[r].body.authorid \notin AuthorsReferenced(req[r].pre.books)) =>
         /\ DOMAIN authors = DOMAIN req[r].pre.authors \ {req[r].body.authorid}
         /\ Count(authors) = Count(req[r].pre.authors) - 1
         /\ Redirected(r, Url("/catalog/authors", 0))
    /\ (Done(r, "genre_delete_post")
          /\ req[r].params.id \in DOMAIN req[r].pre.genres
          /\ req[r].params.id \notin GenresReferenced(req[r].pre.books)) =>
         /\ DOMAIN genres = DOMAIN req[r].pre.genres \ {req[r].params.id}
         /\ Count(genres) = Count(req[r].pre.genres) - 1
         /\ Redirected(r, Url("/catalog/genres", 0))

\* C1, as it fails: a genre that a book refers to is gone after a genre delete
\* POST whose path id and body id differ.
C1_Reached ==
  /\ Done("r1", "genre_delete_post")
  /\ req["r1"].body.genreid \in GenresReferenced(req["r1"].pre.books) \cap DOMAIN req["r1"].pre.genres
  /\ req["r1"].body.genreid \notin DOMAIN genres

\* The request went past the name lookup with no match and has an id to save under.
PassedLookup(r) == req[r].kind = "genre_create_post" /\ "id" \in DOMAIN req[r].local

\* C2: the genre name check is a read followed by a write with nothing between
\* them: when two genre create POSTs with the same valid name have both done
\* their lookup before either has inserted, each insert still happens, adding a
\* document of that name each time, although the other may have inserted it.
C2_BothInsert ==
  [][\A r \in Reqs, q \in Reqs :
       (/\ r # q
        /\ At(r, "genre_create_post", "save")
        /\ PassedLookup(q)
        /\ Sanitize(req[q].body.name) = Sanitize(req[r].body.name)
        /\ req'[r].pc = "done") =>
         /\ req[r].local.id \notin DOMAIN genres
         /\ DOMAIN genres' = DOMAIN genres \cup {req[r].local.id}
         /\ genres'[req[r].local.id].name = Sanitize(req[r].body.name)
         /\ req'[r].resp = <<Redirect(Url("/catalog/genre/", req[r].local.id))>>]_vars

\* Two genres of one name, each the document of one of two finished creates.
C2_Witness ==
  /\ Done("r1", "genre_create_post") /\ PassedLookup("r1")
  /\ Done("r2", "genre_create_post") /\ PassedLookup("r2")
  /\ req["r1"].local.id # req["r2"].local.id
  /\ {req["r1"].local.id, req["r2"].local.id} \subseteq DOMAIN genres
  /\ genres[req["r1"].local.id].name = genres[req["r2"].local.id].name

\* The form of a create POST passes all field rules.
ValidCreate(r) ==
  \/ req[r].kind = "author_create_post" /\ AuthorErrors(req[r].body) = <<>>
  \/ req[r].kind = "book_create_post" /\ BookErrors(req[r].body) = <<>>
  \/ req[r].kind = "genre_create_post" /\ GenreErrors(req[r].body.name) = <<>>
  \/ req[r].kind = "bookinstance_create_post" /\ InstanceErrors(req[r].body) = <<>>

\* After the request the collection holds exactly one document more, and the
\* request redirected to that document's location.
AddedOne(r, coll, before, path) ==
  /\ DOMAIN before \subseteq DOMAIN coll
  /\ Cardinality(DOMAIN coll \ DOMAIN before) = 1
  /\ \E id \in DOMAIN coll \ DOMAIN before : Redirected(r, Url(path, id))

NameTaken(r) ==
  \E g \in DOMAIN req[r].pre.genres :
    req[r].pre.genres[g].name = Sanitize(req[r].body.name)

EmptyRequired(r) ==
  IF req[r].kind = "author_create_post"
  THEN {f \in {"first_name", "family_name"} : ~IsLengthMin1(req[r].body[f])}
  ELSE IF req[r].kind = "book_create_post"
  THEN {f \in {"title", "summary", "isbn"} : ~IsLengthMin1(req[r].body[f])}
       \cup (IF req[r].body.author = 0 THEN {"author"} ELSE {})
  ELSE IF req[r].kind = "genre_create_post"
  THEN {f \in {"name"} : ~IsLengthMin1(req[r].body[f])}
  ELSE IF req[r].kind = "bookinstance_create_post"
  THEN {f \in {"imprint"} : ~IsLengthMin1(req[r].body[f])}
       \cup (IF req[r].body.book = 0 THEN {"book"} ELSE {})
  ELSE {}

FormOf(kind) ==
  IF kind = "author_create_post" THEN "author_form"
  ELSE IF kind = "book_create_post" THEN "book_form"
  ELSE IF kind = "genre_create_post" THEN "genre_form"
  ELSE "bookinstance_form"

\* C6: a create POST of any type with a required field empty answers with one
\* render of the input form that carries an error for each such field, and
\* creates no document.
C6_EmptyRequiredRedisplays ==
  \A r \in Reqs :
    (req[r].pc = "done" /\ EmptyRequired(r) # {}) =>
      /\ Rendered(r, FormOf(req[r].kind))
      /\ \A f \in EmptyRequired(r) :
           \E i \in 1..Len(req[r].resp[1].data.errors) : req[r].resp[1].data.errors[i].param = f
      /\ Snapshot = req[r].pre

\* C6, as it fails: the copy form without a book ends at the error responder.
C6_Reached ==
  /\ Done("r1", "bookinstance_create_post")
  /\ req["r1"].body.book = 0
  /\ Failed("r1", 500)

\* C7: a book instance update POST whose status is not Available and whose
\* due_back is absent, all declared rules passing, renders the form with an
\* error on due_back and leaves the stored documents as they were.
C7_DueBackRequiredOnUpdate ==
  \A r \in Reqs :
    (Done(r, "bookinstance_update_post")
       /\ req[r].body.status # "Available"
       /\ req[r].body.due_back = ""
       /\ InstanceErrors(req[r].body) = <<>>) =>
      /\ Rendered(r, "bookinstance_form")
      /\ req[r].resp[1].data.errors = <<FieldError("Due_back", "Invalid date")>>
      /\ bookinstances = req[r].pre.bookinstances

C7_Witness ==
  /\ Done("r1", "bookinstance_update_post")
  /\ req["r1"].body.status = "Loaned"
  /\ req["r1"].body.due_back = ""
  /\ InstanceErrors(req["r1"].body) = <<>>
  /\ req["r1"].params.id \in DOMAIN bookinstances
  /\ Rendered("r1", "bookinstance_form")

CopiesBefore(r) ==
  {c \in DOMAIN req[r].pre.bookinstances : req[r].pre.bookinstances[c].book = req[r].params.id}

Before(r, kind) ==
  IF kind \in {"author_delete_get", "author_detail", "author_update_get"} THEN req[r].pre.authors
  ELSE IF kind \in {"book_delete_get", "book_detail", "book_update_get"} THEN req[r].pre.books
  ELSE IF kind \in {"genre_delete_get", "genre_detail", "genre_update_get"} THEN req[r].pre.genres
  ELSE req[r].pre.bookinstances

ListOf(kind) ==
  IF kind = "author_delete_get" THEN "/catalog/authors"
  ELSE IF kind = "book_delete_get" THEN "/catalog/books"
  ELSE IF kind = "genre_delete_get" THEN "/catalog/genres"
  ELSE "/catalog/bookinstances"

DeleteGets == {"author_delete_get", "book_delete_get", "genre_delete_get", "bookinstance_delete_get"}

\* C9: a delete GET whose id resolves to no document answers with the redirect
\* to the list page and nothing else: no render, no error after it.
C9_DeleteGetRedirectsOnly ==
  \A r \in Reqs :
    (req[r].pc = "done" /\ req[r].kind \in DeleteGets
       /\ req[r].params.id \notin DOMAIN Before(r, req[r].kind)) =>
      Redirected(r, Url(ListOf(req[r].kind), 0))

\* C9, as it fails: the confirmation view is rendered after the redirect.
C9_Reached ==
  /\ Done("r1", "author_delete_get")
  /\ Len(req["r1"].resp) >= 2
  /\ req["r1"].resp[1].type = "redirect"
  /\ req["r1"].resp[2] = Render("author_delete", [author |-> {}, author_books |-> {}])

DetailAndUpdateGets ==
  {"author_detail", "book_detail", "genre_detail", "bookinstance_detail",
   "author_update_get", "book_update_get", "genre_update_get", "bookinstance_update_get"}

\* C10: a detail GET and an update GET of any type whose id resolves to no
\* document pass one error of status 404 to the error responder and render
\* nothing.
C10_NotFoundOnMissing ==
  \A r \in Reqs :
    (req[r].pc = "done" /\ req[r].kind \in DetailAndUpdateGets
       /\ req[r].params.id \notin DOMAIN Before(r, req[r].kind)) =>
      Failed(r, 404)

\* C10, as it fails: the genre update GET renders its form for any id.
C10_Reached ==
  /\ Done("r1", "genre_update_get")
  /\ req["r1"].params.id \notin DOMAIN genres
  /\ Rendered("r1", "genre_form")

----------------------------------------------------------------------------
(* Update POSTs and identities. *)

UpdatePosts ==
  {"author_update_post", "book_update_post", "genre_update_post",
   "bookinstance_update_post"}

Collections == {"authors", "books", "genres", "bookinstances"}

CollectionOf(kind) ==
  CASE kind = "author_update_post" -> "authors"
    [] kind = "book_update_post" -> "books"
    [] kind = "genre_update_post" -> "genres"
    [] kind = "bookinstance_update_post" -> "bookinstances"

\* The store after the step.
SnapshotAfter ==
  [authors |-> authors', books |-> books', genres |-> genres',
   bookinstances |-> bookinstances']

\* Slot r takes a step of an update POST.
UpdatePostStep(r) ==
  /\ req'[r] # req[r]
  /\ req'[r].pc # "idle"
  /\ req'[r].kind \in UpdatePosts

\* C11: no step of an update POST of any type allocates an id or changes the
\* set of documents of any collection, and the only document a step may change
\* is the one of its own type under the path id; an id that resolves to no
\* document gets none.
C11_UpdateAllocatesNothing ==
  [][\A r \in Reqs :
       UpdatePostStep(r) =>
         /\ nextId' = nextId
         /\ \A c \in Collections :
              /\ DOMAIN SnapshotAfter[c] = DOMAIN Snapshot[c]
              /\ \A i \in DOMAIN Snapshot[c] :
                   (c # CollectionOf(req'[r].kind) \/ i # req'[r].params.id) =>
                     SnapshotAfter[c][i] = Snapshot[c][i]]_vars

\* C11: an author update POST has changed author 1 and left author 2 as it was.
C11_Witness ==
  /\ Done("r1", "author_update_post")
  /\ req["r1"].params.id = 1
  /\ Redirected("r1", Url("/catalog/author/", 1))
  /\ DOMAIN authors = {1, 2}
  /\ DOMAIN req["r1"].pre.authors = {1, 2}
  /\ authors[1] # req["r1"].pre.authors[1]
  /\ authors[2] = req["r1"].pre.authors[2]

----------------------------------------------------------------------------
(* Genre names, one request at a time. *)

\* C12: with one request at a time, no two genre documents have the same
\* name, whatever genre create POSTs and update POSTs have run.
C12_GenreNamesDistinct ==
  \A g \in DOMAIN genres, h \in DOMAIN genres :
    genres[g].name = genres[h].name => g = h

\* C12: an update POST of genre 2 with the name of genre 1 has redirected to
\* genre 1 and written nothing.
C12_Witness ==
  /\ Done("r1", "genre_update_post")
  /\ req["r1"].params.id = 2
  /\ DOMAIN genres = {1, 2}
  /\ genres[1].name = Sanitize(req["r1"].body.name)
  /\ genres[2].name # genres[1].name
  /\ Redirected("r1", Url("/catalog/genre/", 1))

----------------------------------------------------------------------------
(* Copies and their due dates. *)

\* C13: every copy in the store whose status is other than Available has a
\* due_back date.
C13_DueBackWhenNotAvailable ==
  \A c \in DOMAIN bookinstances :
    bookinstances[c].status # "Available" => bookinstances[c].due_back # ""

\* C13, as it fails: a create POST with status Loaned and no due_back has
\* saved its copy.
C13_Reached ==
  /\ Done("r1", "bookinstance_create_post")
  /\ req["r1"].body.status = "Loaned"
  /\ req["r1"].body.due_back = ""
  /\ \E c \in DOMAIN bookinstances :
       /\ c \notin DOMAIN req["r1"].pre.bookinstances
       /\ Redirected("r1", Url("/catalog/bookinstance/", c))
       /\ bookinstances[c].status = "Loaned"
       /\ bookinstances[c].due_back = ""

----------------------------------------------------------------------------
(* Responses per request. *)

\* C14: every request that is over has produced exactly one response
\* outcome: one render, one redirect, or one error passed on.
C14_ExactlyOneResponse ==
  \A r \in Reqs : req[r].pc = "done" => Len(req[r].resp) = 1

\* C14, as it fails: a genre delete GET for an id of no genre has redirected
\* and then rendered.
C14_Reached ==
  /\ Done("r1", "genre_delete_get")
  /\ req["r1"].params.id \notin DOMAIN genres
  /\ Len(req["r1"].resp) >= 2
  /\ req["r1"].resp[1] = Redirect(Url("/catalog/genres", 0))
  /\ req["r1"].resp[2].type = "render"

----------------------------------------------------------------------------
(* The author delete POST among other requests. *)

\* Slot r's author delete POST removes an author in this step.
RemovesAuthor(r) ==
  /\ At(r, "author_delete_post", "remove")
  /\ req'[r].pc = "done"
  /\ req[r].body.authorid \in DOMAIN authors
  /\ req[r].body.authorid \notin DOMAIN authors'

\* C15: whenever an author delete POST removes an author, no book in the
\* store names that author at that moment, whatever book create or update POST
\* has run since the delete looked for the author's books.
C15_NoBookAtRemoval ==
  [][\A r \in Reqs : RemovesAuthor(r) => BooksOfAuthor(req[r].body.authorid) = {}]_vars

\* C15, as it fails: the delete POST in r1 found no book of the author; the
\* book create POST in r2 then found the author in the store and saved a book
\* naming it; the delete then removed the author.
C15_Reached ==
  /\ Done("r1", "author_delete_post")
  /\ Redirected("r1", Url("/catalog/authors", 0))
  /\ Done("r2", "book_create_post")
  /\ req["r1"].body.authorid \in DOMAIN req["r2"].pre.authors
  /\ req["r1"].body.authorid \notin DOMAIN authors
  /\ \E b \in DOMAIN books :
       /\ b \notin DOMAIN req["r1"].pre.books
       /\ Redirected("r2", Url("/catalog/book/", b))
       /\ books[b].author = req["r1"].body.authorid

====
